---------------------------- MODULE Spec2Model ----------------------------
(***************************************************************************)
(* Backburner scanner: the setup state machine (BackburnerDetector), the   *)
(* indicator library it calls, and the request RateLimiter of the market   *)
(* data client.                                                            *)
(*                                                                         *)
(* Numbers.  Prices, volumes and times are integers.  Every quotient the   *)
(* code computes in floating point (averages, percent moves, oscillator    *)
(* values) is kept as an exact fraction [n |-> numerator, d |-> denom]     *)
(* in lowest terms; d = 0 stands for NaN (0/0).  Comparisons are done by   *)
(* cross multiplication.                                                   *)
(*                                                                         *)
(* Indices are 0-based as in the source; At(s, i) reads element i.         *)
(***************************************************************************)
EXTENDS Integers, Sequences, FiniteSets, TLC

VARIABLES
    activeSetups,   \* BackburnerDetector.activeSetups: key -> BackburnerSetup
    now,            \* Date.now() as seen by the detector
    last,           \* the last detector call: operation, arguments, record before, result
    held,           \* the record object a caller keeps a reference to, if any
    rlNow,          \* Date.now() as seen by the RateLimiter
    running,        \* RateLimiter.running
    lastRequestTime,\* RateLimiter.lastRequestTime
    queue,          \* RateLimiter.queue: the queued run closures, by task
    pc,             \* per task: position of its run closure
    wakeAt,         \* per task: time its sleep() timer is due
    dispatchedAt,   \* per task: time fn() was started (0 = not yet)
    fetchPc,        \* fetchWithRetry: position of the call
    retries,        \* fetchWithRetry: its retries argument
    fetchI,         \* fetchWithRetry: the loop index i
    lastError,      \* fetchWithRetry: lastError
    attempts,       \* the outcome of each fetch() so far
    sleeps,         \* the duration of each sleep() so far
    thrown,         \* the error fetchWithRetry threw
    batchPc,        \* batchGetKlines: position of the call
    symbols,        \* batchGetKlines: its symbols argument
    resultsMap,     \* batchGetKlines: results, symbol -> candles
    completed,      \* batchGetKlines: completed
    progress,       \* the onProgress calls so far, as <<completed, total>>
    tries,          \* per task: failed attempts of its fetchWithRetry so far
    backoff,        \* per task: its fetchWithRetry is in the sleep after a failure
    settled         \* per task: how its getKlines call settled

detVars == <<activeSetups, now, last, held>>
rlVars  == <<rlNow, running, lastRequestTime, queue, pc, wakeAt, dispatchedAt>>
fetchVars == <<fetchPc, retries, fetchI, lastError, attempts, sleeps, thrown>>
batchVars == <<batchPc, symbols, resultsMap, completed, progress, tries, backoff, settled>>
apiVars == <<rlVars, fetchVars, batchVars>>
vars    == <<activeSetups, now, last, held, rlNow, running, lastRequestTime, queue, pc,
             wakeAt, dispatchedAt, fetchPc, retries, fetchI, lastError, attempts, sleeps,
             thrown, batchPc, symbols, resultsMap, completed, progress, tries, backoff,
             settled>>

\* null / undefined, where the code has a record, a number or nothing.
None == [null |-> TRUE]

-----------------------------------------------------------------------------
(* Arithmetic helpers *)

Abs(x) == IF x < 0 THEN -x ELSE x

Min(a, b) == IF a < b THEN a ELSE b

Max(a, b) == IF a > b THEN a ELSE b

RECURSIVE GCD(_, _)
GCD(a, b) == IF b = 0 THEN Abs(a) ELSE GCD(b, a % b)

\* The quotient num/den of two integers (den >= 0), in lowest terms; 0/0 is NaN.
Frac(num, den) ==
    LET g == GCD(num, den)
    IN  IF g = 0 THEN [n |-> 0, d |-> 0] ELSE [n |-> num \div g, d |-> den \div g]

\* q < k, q >= k, q > k for a fraction q and an integer k, by cross
\* multiplication; every comparison with NaN is false.
FracLt(q, k) == q.d > 0 /\ q.n < k * q.d

FracGe(q, k) == q.d > 0 /\ q.n >= k * q.d

FracGt(q, k) == q.d > 0 /\ q.n > k * q.d

At(s, i) == s[i + 1]

\* Array.prototype.slice(from, to) for 0 <= from.
Slice(s, from, to) == SubSeq(s, from + 1, Min(to, Len(s)))

\* Array.prototype.slice(-k): the last k elements (k = 0 gives the whole array,
\* as -0 is 0 in JavaScript).
SliceLast(s, k) == IF k = 0 THEN s ELSE SubSeq(s, Max(0, Len(s) - k) + 1, Len(s))

-----------------------------------------------------------------------------
(* Indicator library *)

RECURSIVE SumVolume(_)
SumVolume(candles) ==
    IF candles = <<>> THEN 0 ELSE Head(candles).volume + SumVolume(Tail(candles))

RECURSIVE SumSeq(_)
SumSeq(s) == IF s = <<>> THEN 0 ELSE Head(s) + SumSeq(Tail(s))

\* gains[i], losses[i] of calculateRSI, i 0-based: the change into candle i+1.
Gain(candles, i) ==
    LET change == At(candles, i + 1).close - At(candles, i).close
    IN  IF change > 0 THEN change ELSE 0

Loss(candles, i) ==
    LET change == At(candles, i + 1).close - At(candles, i).close
    IN  IF change < 0 THEN Abs(change) ELSE 0

\* The oscillator value for average gain G/D and average loss L/D:
\* 100 when the average loss is 0, else 100 - 100/(1 + G/L) = 100*G/(G+L).
RSIValue(G, L) == IF L = 0 THEN Frac(100, 1) ELSE Frac(100 * G, G + L)

\* The Wilder smoothing loop: avgGain = G/D and avgLoss = L/D are the averages
\* after gains[i-1]; the triple is kept in lowest terms.
RECURSIVE RSILoop(_, _, _, _, _, _, _)
RSILoop(candles, period, i, G, L, D, results) ==
    IF i >= Len(candles) - 1 THEN results
    ELSE LET G1 == G * (period - 1) + Gain(candles, i) * D
             L1 == L * (period - 1) + Loss(candles, i) * D
             D1 == D * period
             g  == GCD(G1, GCD(L1, D1))
         IN  RSILoop(candles, period, i + 1, G1 \div g, L1 \div g, D1 \div g,
                     Append(results, [value |-> RSIValue(G1, L1),
                                      timestamp |-> At(candles, i + 1).timestamp]))

calculateRSI_SkipsFirst(candles, period) ==
    IF Len(candles) < period + 1 THEN <<>>
    ELSE LET G0 == SumSeq([i \in 1..period |-> Gain(candles, i - 1)])
             L0 == SumSeq([i \in 1..period |-> Loss(candles, i - 1)])
             g  == GCD(G0, GCD(L0, period))
         IN  RSILoop(candles, period, period, G0 \div g, L0 \div g, period \div g, <<>>)

calculateRSI(candles, period) ==
    IF Len(candles) < period + 1 THEN <<>>
    ELSE LET G0 == SumSeq([i \in 1..period |-> Gain(candles, i - 1)])
             L0 == SumSeq([i \in 1..period |-> Loss(candles, i - 1)])
             g  == GCD(G0, GCD(L0, period))
         IN  RSILoop(candles, period, period, G0 \div g, L0 \div g, period \div g,
                     <<[value |-> RSIValue(G0, L0),
                        timestamp |-> At(candles, period).timestamp]>>)

getCurrentRSI(candles, period) ==
    LET rsiValues == calculateRSI(candles, period)
    IN  IF Len(rsiValues) = 0 THEN None ELSE At(rsiValues, Len(rsiValues) - 1).value

\* Trailing arithmetic means of window `period`.
calculateSMA(values, period) ==
    IF Len(values) < period THEN <<>>
    ELSE [k \in 1..(Len(values) - period + 1) |->
             Frac(SumSeq(SubSeq(values, k, k + period - 1)), period)]

calculateAvgVolume(candles, period) ==
    IF Len(candles) < period
    THEN Frac(SumVolume(candles), Len(candles))
    ELSE Frac(SumVolume(SliceLast(candles, period)), period)

\* The scan `for (i = 1; i < length; i++) if (candles[i].high > highest.high)
\* { highest = candles[i]; highestIndex = i }` ends on the first index of the
\* greatest high: a later candle replaces the extremum only when strictly
\* beyond it.
HighScan(candles) ==
    CHOOSE i \in 0..(Len(candles) - 1) :
        /\ \A j \in 0..(i - 1) : At(candles, j).high < At(candles, i).high
        /\ \A j \in (i + 1)..(Len(candles) - 1) : At(candles, j).high <= At(candles, i).high

findHighestHigh(candles) ==
    LET highestIndex == HighScan(candles)
    IN  [price |-> At(candles, highestIndex).high, index |-> highestIndex,
         timestamp |-> At(candles, highestIndex).timestamp]

\* Likewise the first index of the least low.
LowScan(candles) ==
    CHOOSE i \in 0..(Len(candles) - 1) :
        /\ \A j \in 0..(i - 1) : At(candles, j).low > At(candles, i).low
        /\ \A j \in (i + 1)..(Len(candles) - 1) : At(candles, j).low >= At(candles, i).low

findLowestLow(candles) ==
    LET lowestIndex == LowScan(candles)
    IN  [price |-> At(candles, lowestIndex).low, index |-> lowestIndex,
         timestamp |-> At(candles, lowestIndex).timestamp]

\* The default of detectImpulseMove's lookbackPeriod parameter.
LookbackPeriod == 50

detectImpulseMove(candles, minPercentMove, lookbackPeriod) ==
    IF Len(candles) < lookbackPeriod THEN None
    ELSE LET recentCandles == SliceLast(candles, lookbackPeriod)
             highest == findHighestHigh(recentCandles)
             lowest  == findLowestLow(recentCandles)
             upMove   == Frac((highest.price - lowest.price) * 100, lowest.price)
             downMove == Frac((highest.price - lowest.price) * 100, highest.price)
         IN  IF highest.index > lowest.index /\ FracGe(upMove, minPercentMove)
             THEN [startIndex |-> lowest.index, endIndex |-> highest.index,
                   startPrice |-> lowest.price, endPrice |-> highest.price,
                   percentMove |-> upMove, direction |-> "up"]
             ELSE IF lowest.index > highest.index /\ FracGe(downMove, minPercentMove)
             THEN [startIndex |-> highest.index, endIndex |-> lowest.index,
                   startPrice |-> highest.price, endPrice |-> lowest.price,
                   percentMove |-> downMove, direction |-> "down"]
             ELSE None

\* pullbackAvgVol < impulseAvgVol * 0.8, i.e.
\* 10 * sum(pullback) * len(impulse) < 8 * sum(impulse) * len(pullback).
isVolumeContracting(impulseCandles, pullbackCandles) ==
    IF Len(impulseCandles) = 0 \/ Len(pullbackCandles) = 0 THEN FALSE
    ELSE 10 * SumVolume(pullbackCandles) * Len(impulseCandles)
           < 8 * SumVolume(impulseCandles) * Len(pullbackCandles)

\* The default of isHigherTFBullish's smaPeriod parameter.
SmaPeriod == 20

\* currentPrice > currentSMA, for the last close and the last SMA value.
isHigherTFBullish(candles, smaPeriod) ==
    IF Len(candles) < smaPeriod THEN FALSE
    ELSE LET closes == [i \in 1..Len(candles) |-> candles[i].close]
             sma    == calculateSMA(closes, smaPeriod)
         IN  IF Len(sma) = 0 THEN FALSE
             ELSE LET currentPrice == At(candles, Len(candles) - 1).close
                      currentSMA   == At(sma, Len(sma) - 1)
                  IN  currentPrice * currentSMA.d > currentSMA.n

-----------------------------------------------------------------------------
(* Detector configuration and inputs *)

\* The configuration the detector is constructed with (the constructor merges
\* its argument over the defaults).  The oscillator period is a short one so
\* that the exact fractions stay small; the oversold threshold is the one the
\* source's comments name (RSI < 30).
config ==
    [rsiPeriod |-> 2, rsiOversoldThreshold |-> 30, rsiDeepOversoldThreshold |-> 20,
     minImpulsePercent |-> 5]

Symbols == {"BTC", "ETH"}

Timeframes == {"5m", "1h"}

\* The (symbol, timeframe) pairs the scanner evaluates.
Scanned == {<<"BTC", "5m">>}

\* Three keys, two of them of one symbol.
Keys == {<<"BTC", "5m">>, <<"BTC", "1h">>, <<"ETH", "5m">>}

\* Candle i (0-based) of a series: OHLC with low <= close <= high.
MkCandle(i, close, low, high, volume) ==
    [timestamp |-> i, open |-> close, high |-> Max(high, close),
     low |-> Min(low, close), close |-> close, volume |-> volume]

\* A candle series: n candles closing at `base` inside the band base-1..base+1,
\* one candle with a low of lowPx at lowAt and one with a high of highPx at
\* highAt (an index of -1: no such candle), candles after highAt trading
\* pullVol, and the last two closes given by `tail`.
MkSeries(shape, tail) ==
    SubSeq([k \in 1..shape.n |->
        LET i == k - 1
            close == IF i >= shape.n - Len(tail)
                     THEN tail[i - (shape.n - Len(tail)) + 1] ELSE shape.base
        IN  MkCandle(i, close,
                     IF i = shape.lowAt THEN shape.lowPx ELSE shape.base - 1,
                     IF i = shape.highAt THEN shape.highPx ELSE shape.base + 1,
                     IF i > shape.highAt THEN shape.pullVol ELSE 10)], 1, shape.n)

Up50 == [n |-> 50, base |-> 100, lowAt |-> 10, lowPx |-> 90, highAt |-> 40, highPx |-> 110, pullVol |-> 5]

Up51 == [n |-> 51, base |-> 100, lowAt |-> 10, lowPx |-> 90, highAt |-> 40, highPx |-> 110, pullVol |-> 10]

Down50 == [n |-> 50, base |-> 100, lowAt |-> 40, lowPx |-> 90, highAt |-> 10, highPx |-> 110, pullVol |-> 10]

Small50 == [n |-> 50, base |-> 100, lowAt |-> 10, lowPx |-> 98, highAt |-> 40, highPx |-> 102, pullVol |-> 10]

Short49 == [n |-> 49, base |-> 100, lowAt |-> 10, lowPx |-> 90, highAt |-> 40, highPx |-> 110, pullVol |-> 10]

High50 == [n |-> 50, base |-> 118, lowAt |-> -1, lowPx |-> 0, highAt |-> -1, highPx |-> 0, pullVol |-> 10]

\* Last two closes after a flat run at 100, with the oscillator (period 2) and
\* the price they end on:
\*   <<100, 98>>  100, 0     at 98     <<98, 98>>    0, 0      at 98
\*   <<102, 98>>  100, 20    at 98     <<106, 99>>   100, 30   at 99
\*   <<102, 101>> 100, 50    at 101    <<98, 101>>   0, 75     at 101
\*   <<100, 90>>  100, 0     at 90     <<100, 88>>   100, 0    at 88
\*   <<76, 88>>   0, 50      at 88     <<127, 109>>  100, 300/7 at 109
\*   <<104, 101>> 100, 40    at 101
Tails ==
    { <<100, 98>>, <<98, 98>>, <<102, 98>>, <<106, 99>>, <<102, 101>>, <<98, 101>>,
      <<100, 90>>, <<100, 88>>, <<76, 88>>, <<127, 109>>, <<104, 101>> }

\* The candle series the scanner is fed.
CandleInputs ==
    { MkSeries(Up50, tail) : tail \in Tails }
    \cup { MkSeries(Up51, tail) : tail \in { <<100, 98>>, <<102, 98>> } }
    \cup { MkSeries(shape, <<100, 98>>) : shape \in {Down50, Small50, Short49} }
    \cup { MkSeries(Short49, <<100, 88>>) }
    \cup { MkSeries(High50, tail) : tail \in { <<118, 109>>, <<127, 109>> } }

\* The optional higherTFCandles argument: 20 candles closing above their
\* average, 20 candles closing at it.
HigherTFCandleInputs ==
    { SubSeq([k \in 1..20 |-> MkCandle(k - 1, IF k = 20 THEN 105 ELSE 100, 99, 101, 10)], 1, 20),
      SubSeq([k \in 1..20 |-> MkCandle(k - 1, 100, 99, 101, 10)], 1, 20) }

-----------------------------------------------------------------------------
(* Inputs of the indicator library called on its own *)

\* The longest short series.
MaxWindow == 4

\* All sequences over S of length from..to.
SeqsOf(S, from, to) == UNION { [1..n -> S] : n \in from..to }

\* The candle series of a sequence of closes, lows one below and highs one
\* above the close.
FromCloses(closes) ==
    SubSeq([k \in 1..Len(closes) |->
               MkCandle(k - 1, closes[k], closes[k] - 1, closes[k] + 1, 10)], 1, Len(closes))

\* Series for calculateRSI: every series of up to MaxWindow closes out of
\* four prices, and series of 14 to 16 candles that rise, fall, stay flat,
\* rise with pauses, and zigzag.
Shapes == {"rising", "falling", "flat", "steps", "zigzag"}

ShapeClose(shape, i) ==
    CASE shape = "rising"  -> 100 + i
      [] shape = "falling" -> 100 - i
      [] shape = "flat"    -> 100
      [] shape = "steps"   -> 100 + (i \div 2)
      [] shape = "zigzag"  -> 100 + 3 * (i % 2)

RsiSeries ==
    { FromCloses(closes) : closes \in SeqsOf({10, 11, 12, 13}, 0, MaxWindow) }
    \cup { FromCloses([k \in 1..n |-> ShapeClose(shape, k - 1)]) :
               shape \in Shapes, n \in 14..16 }

RsiPeriods == {2, 14}

\* Series for detectImpulseMove: every series of 2 to MaxWindow candles out of
\* three bars (low, high), so that extrema repeat, coincide on one candle and
\* come in both orders; a lookback of 3 candles; a low and a high threshold.
Bars == { <<9, 10>>, <<10, 12>>, <<8, 11>> }

ImpulseSeries ==
    { SubSeq([k \in 1..Len(bars) |->
                 MkCandle(k - 1, bars[k][2], bars[k][1], bars[k][2], 10)], 1, Len(bars)) :
          bars \in SeqsOf(Bars, 2, MaxWindow) }

ShortLookback == 3

MinPercentMoves == {5, 30}

-----------------------------------------------------------------------------
(* BackburnerDetector *)

getSetupKey_SymbolOnly(symbol, timeframe) == symbol

getSetupKey(symbol, timeframe) == symbol \o "-" \o timeframe

\* Map.set and Map.delete on a function whose domain is the set of live keys.
MapSet(m, key, value) ==
    [k \in DOMAIN m \cup {key} |-> IF k = key THEN value ELSE m[k]]

MapDelete_Keeps(m, key) == m

MapDelete(m, key) == [k \in DOMAIN m \ {key} |-> m[k]]

\* isFirstOversoldAfterImpulse's loop: the number of oscillator samples from
\* startRSIIndex on that are below the oversold threshold.
oversoldCount(rsiValues, impulseEndIndex, totalCandles) ==
    LET rsiOffset == totalCandles - Len(rsiValues)
        startRSIIndex == Max(0, impulseEndIndex - rsiOffset)
    IN  Cardinality({i \in startRSIIndex..(Len(rsiValues) - 1) :
                        FracLt(At(rsiValues, i).value, config.rsiOversoldThreshold)})

isFirstOversoldAfterImpulse(count) == count <= 1

\* The indicator results of a series.  They depend on the candles alone, so
\* they are computed once per series, not once per call:
\*   rsiValues  = calculateRSI(candles, this.config.rsiPeriod)
\*   currentRSI = getCurrentRSI(candles, this.config.rsiPeriod)
\*   impulse    = detectImpulseMove(candles, this.config.minImpulsePercent)
\*   oversoldSince = the count isFirstOversoldAfterImpulse makes for that impulse
\* oversoldAfterEnd is not the code's: it counts the samples below the oversold
\* threshold whose timestamp is at or after that of the candle the impulse
\* ended on (the candle of the highest high among the last LookbackPeriod).
ScanWith(candles, rsiPeriod) ==
    LET rsiValues == calculateRSI(candles, rsiPeriod)
        impulse   == detectImpulseMove(candles, config.minImpulsePercent, LookbackPeriod)
    IN  [candles |-> candles,
         rsiValues |-> rsiValues,
         currentRSI |-> getCurrentRSI(candles, rsiPeriod),
         impulse |-> impulse,
         oversoldSince |-> IF impulse = None THEN 0
                           ELSE oversoldCount(rsiValues, impulse.endIndex, Len(candles)),
         oversoldAfterEnd |->
             IF impulse = None THEN 0
             ELSE LET endTime == At(SliceLast(candles, LookbackPeriod),
                                    impulse.endIndex).timestamp
                  IN  Cardinality({i \in 1..Len(rsiValues) :
                         /\ rsiValues[i].timestamp >= endTime
                         /\ FracLt(rsiValues[i].value, config.rsiOversoldThreshold)})]

Scan(candles) == ScanWith(candles, config.rsiPeriod)

Scans == { Scan(candles) : candles \in CandleInputs }

\* A detector constructed with a long oscillator period, under which a
\* series of 50 candles yields fewer than MinRsiValues samples and one of 51
\* candles just enough: 49 candles; 50 candles, ending inside and below the
\* impulse; 51 candles ending oversold, recovered, and below the impulse.
LongRsiPeriod == 46

LongScans ==
    { ScanWith(MkSeries(Short49, <<100, 98>>), LongRsiPeriod) }
    \cup { ScanWith(MkSeries(Up50, tail), LongRsiPeriod) : tail \in { <<100, 98>>, <<100, 88>> } }
    \cup { ScanWith(MkSeries(Up51, tail), LongRsiPeriod) :
               tail \in { <<100, 98>>, <<98, 101>>, <<100, 88>> } }

\* The optional higherTFCandles argument, absent or with
\*   bullish = isHigherTFBullish(higherTFCandles)
HigherTFInputs ==
    {None} \cup { [candles |-> candles, bullish |-> isHigherTFBullish(candles, SmaPeriod)] :
                     candles \in HigherTFCandleInputs }

newSetupState_OneThreshold(currentRSI) ==
    IF FracLt(currentRSI, config.rsiOversoldThreshold) THEN "deep_oversold"
    ELSE "watching"

\* The state a new record is classified into.
newSetupState(currentRSI) ==
    IF FracLt(currentRSI, config.rsiDeepOversoldThreshold) THEN "deep_oversold"
    ELSE IF FracLt(currentRSI, config.rsiOversoldThreshold) THEN "triggered"
    ELSE "watching"

inPullback_AtLow(currentPrice, impulse) ==
    ~(currentPrice >= impulse.endPrice) /\ ~(currentPrice < impulse.startPrice)

\* Step 2 of detectNewSetup: neither of its two returns is taken.
inPullback(currentPrice, impulse) ==
    ~(currentPrice >= impulse.endPrice) /\ ~(currentPrice <= impulse.startPrice)

\* detectNewSetup: the record it builds, or None when it returns null.
newSetup(symbol, timeframe, scan, currentRSI, currentPrice, higherTFBullish, t) ==
    LET candles == scan.candles
        impulse == scan.impulse
    IN  IF impulse = None THEN None
        ELSE IF impulse.direction # "up" THEN None
        ELSE IF ~inPullback(currentPrice, impulse) THEN None
        ELSE IF ~isFirstOversoldAfterImpulse(scan.oversoldSince)
                /\ FracGe(currentRSI, config.rsiOversoldThreshold) THEN None
        ELSE LET impulseCandles  == Slice(candles, impulse.startIndex, impulse.endIndex + 1)
                 pullbackCandles == Slice(candles, impulse.endIndex + 1, Len(candles))
                 state == newSetupState(currentRSI)
                 isActionable == state = "triggered" \/ state = "deep_oversold"
             IN  IF state = "watching" THEN None
                 ELSE [symbol |-> symbol,
                       timeframe |-> timeframe,
                       state |-> state,
                       impulseHigh |-> impulse.endPrice,
                       impulseLow |-> impulse.startPrice,
                       impulseStartTime |-> At(candles, impulse.startIndex).timestamp,
                       impulseEndTime |-> At(candles, impulse.endIndex).timestamp,
                       impulsePercentMove |-> impulse.percentMove,
                       currentRSI |-> currentRSI,
                       rsiAtTrigger |-> currentRSI,
                       currentPrice |-> currentPrice,
                       entryPrice |-> IF isActionable THEN currentPrice ELSE None,
                       detectedAt |-> t,
                       triggeredAt |-> IF isActionable THEN t ELSE None,
                       lastUpdated |-> t,
                       impulseAvgVolume |->
                           calculateAvgVolume(impulseCandles, Len(impulseCandles)),
                       pullbackAvgVolume |->
                           calculateAvgVolume(pullbackCandles, Len(pullbackCandles)),
                       volumeContracting |->
                           isVolumeContracting(impulseCandles, pullbackCandles),
                       higherTFBullish |-> higherTFBullish]

\* detectNewSetup: the live set after the call and the value returned.
detectNewSetup(setups, symbol, timeframe, scan, currentRSI, currentPrice, higherTFBullish, t) ==
    LET setup == newSetup(symbol, timeframe, scan, currentRSI, currentPrice,
                          higherTFBullish, t)
    IN  IF setup = None THEN [setups |-> setups, ret |-> None]
        ELSE [setups |-> MapSet(setups, getSetupKey(symbol, timeframe), setup),
              ret |-> setup]

isSetupInvalidated_NoStructureBreak(setup, candles) ==
    LET currentPrice == At(candles, Len(candles) - 1).close
    IN  \/ /\ setup.state \in {"triggered", "deep_oversold"}
           /\ 100 * currentPrice >= 99 * setup.impulseHigh
        \/ /\ setup.state = "bouncing"
           /\ FracLt(setup.currentRSI, config.rsiOversoldThreshold)

isSetupInvalidated_NoTarget(setup, candles) ==
    LET currentPrice == At(candles, Len(candles) - 1).close
    IN  \/ currentPrice < setup.impulseLow
        \/ /\ setup.state = "bouncing"
           /\ FracLt(setup.currentRSI, config.rsiOversoldThreshold)

isSetupInvalidated_NoSecondOversold(setup, candles) ==
    LET currentPrice == At(candles, Len(candles) - 1).close
    IN  \/ currentPrice < setup.impulseLow
        \/ /\ setup.state \in {"triggered", "deep_oversold"}
           /\ 100 * currentPrice >= 99 * setup.impulseHigh

\* isSetupInvalidated reads the record after its basic fields were refreshed.
isSetupInvalidated(setup, candles) ==
    LET currentPrice == At(candles, Len(candles) - 1).close
    IN  \/ currentPrice < setup.impulseLow
        \/ /\ setup.state \in {"triggered", "deep_oversold"}
           /\ 100 * currentPrice >= 99 * setup.impulseHigh
        \/ /\ setup.state = "bouncing"
           /\ FracLt(setup.currentRSI, config.rsiOversoldThreshold)

determineSetupState_StrongAt40(setup, currentRSI) ==
    LET prevState == setup.state
    IN  IF FracLt(currentRSI, config.rsiDeepOversoldThreshold) THEN "deep_oversold"
        ELSE IF FracLt(currentRSI, config.rsiOversoldThreshold) THEN "triggered"
        ELSE IF prevState \in {"triggered", "deep_oversold"}
             THEN IF FracGe(currentRSI, 40) THEN "played_out" ELSE "bouncing"
        ELSE IF prevState = "bouncing"
             THEN IF FracGt(currentRSI, 50) THEN "played_out" ELSE "bouncing"
        ELSE setup.state

determineSetupState_BouncingAt40(setup, currentRSI) ==
    LET prevState == setup.state
    IN  IF FracLt(currentRSI, config.rsiDeepOversoldThreshold) THEN "deep_oversold"
        ELSE IF FracLt(currentRSI, config.rsiOversoldThreshold) THEN "triggered"
        ELSE IF prevState \in {"triggered", "deep_oversold", "bouncing"}
             THEN IF FracGt(currentRSI, 40) THEN "played_out" ELSE "bouncing"
        ELSE setup.state

determineSetupState_TriggeredFirst(setup, currentRSI) ==
    LET prevState == setup.state
    IN  IF FracLt(currentRSI, config.rsiOversoldThreshold) THEN "triggered"
        ELSE IF FracLt(currentRSI, config.rsiDeepOversoldThreshold) THEN "deep_oversold"
        ELSE IF prevState \in {"triggered", "deep_oversold"}
             THEN IF FracGt(currentRSI, 40) THEN "played_out" ELSE "bouncing"
        ELSE IF prevState = "bouncing"
             THEN IF FracGt(currentRSI, 50) THEN "played_out" ELSE "bouncing"
        ELSE setup.state

\* determineSetupState: the state an updated record moves to.
determineSetupState(setup, currentRSI) ==
    LET prevState == setup.state
    IN  IF FracLt(currentRSI, config.rsiDeepOversoldThreshold) THEN "deep_oversold"
        ELSE IF FracLt(currentRSI, config.rsiOversoldThreshold) THEN "triggered"
        ELSE IF prevState \in {"triggered", "deep_oversold"}
             THEN IF FracGt(currentRSI, 40) THEN "played_out" ELSE "bouncing"
        ELSE IF prevState = "bouncing"
             THEN IF FracGt(currentRSI, 50) THEN "played_out" ELSE "bouncing"
        ELSE setup.state

updateExistingSetup_KeepsPlayedOut(setups, setup, candles, currentRSI, currentPrice, higherTFBullish, t) ==
    LET key == getSetupKey(setup.symbol, setup.timeframe)
        refreshed == [setup EXCEPT !.currentRSI = currentRSI,
                                   !.currentPrice = currentPrice,
                                   !.lastUpdated = t,
                                   !.higherTFBullish =
                                       IF higherTFBullish # None THEN higherTFBullish
                                       ELSE @]
    IN  IF isSetupInvalidated(refreshed, candles)
        THEN [setups |-> MapDelete(setups, key),
              ret |-> [refreshed EXCEPT !.state = "played_out"]]
        ELSE LET updated ==
                     [refreshed EXCEPT !.state = determineSetupState(refreshed, currentRSI)]
             IN  [setups |-> MapSet(setups, key, updated), ret |-> updated]

updateExistingSetup_InvalidatedStays(setups, setup, candles, currentRSI, currentPrice, higherTFBullish, t) ==
    LET key == getSetupKey(setup.symbol, setup.timeframe)
        refreshed == [setup EXCEPT !.currentRSI = currentRSI,
                                   !.currentPrice = currentPrice,
                                   !.lastUpdated = t,
                                   !.higherTFBullish =
                                       IF higherTFBullish # None THEN higherTFBullish
                                       ELSE @]
    IN  IF isSetupInvalidated(refreshed, candles)
        THEN LET ended == [refreshed EXCEPT !.state = "played_out"]
             IN  [setups |-> MapSet(setups, key, ended), ret |-> ended]
        ELSE LET updated ==
                     [refreshed EXCEPT !.state = determineSetupState(refreshed, currentRSI)]
             IN  IF updated.state = "played_out"
                 THEN [setups |-> MapDelete(setups, key), ret |-> updated]
                 ELSE [setups |-> MapSet(setups, key, updated), ret |-> updated]

updateExistingSetup_Retriggers(setups, setup, candles, currentRSI, currentPrice, higherTFBullish, t) ==
    LET key == getSetupKey(setup.symbol, setup.timeframe)
        refreshed == [setup EXCEPT !.currentRSI = currentRSI,
                                   !.currentPrice = currentPrice,
                                   !.lastUpdated = t,
                                   !.higherTFBullish =
                                       IF higherTFBullish # None THEN higherTFBullish
                                       ELSE @]
    IN  IF isSetupInvalidated(refreshed, candles)
        THEN [setups |-> MapDelete(setups, key),
              ret |-> [refreshed EXCEPT !.state = "played_out"]]
        ELSE LET state == determineSetupState(refreshed, currentRSI)
                 updated ==
                     IF state \in {"triggered", "deep_oversold"} /\ state # setup.state
                     THEN [refreshed EXCEPT !.state = state,
                                            !.entryPrice = currentPrice,
                                            !.rsiAtTrigger = currentRSI,
                                            !.triggeredAt = t]
                     ELSE [refreshed EXCEPT !.state = state]
             IN  IF updated.state = "played_out"
                 THEN [setups |-> MapDelete(setups, key), ret |-> updated]
                 ELSE [setups |-> MapSet(setups, key, updated), ret |-> updated]

\* updateExistingSetup: the live set after the call and the value returned.
updateExistingSetup(setups, setup, candles, currentRSI, currentPrice, higherTFBullish, t) ==
    LET key == getSetupKey(setup.symbol, setup.timeframe)
        refreshed == [setup EXCEPT !.currentRSI = currentRSI,
                                   !.currentPrice = currentPrice,
                                   !.lastUpdated = t,
                                   !.higherTFBullish =
                                       IF higherTFBullish # None THEN higherTFBullish
                                       ELSE @]
    IN  IF isSetupInvalidated(refreshed, candles)
        THEN [setups |-> MapDelete(setups, key),
              ret |-> [refreshed EXCEPT !.state = "played_out"]]
        ELSE LET updated ==
                     [refreshed EXCEPT !.state = determineSetupState(refreshed, currentRSI)]
             IN  IF updated.state = "played_out"
                 THEN [setups |-> MapDelete(setups, key), ret |-> updated]
                 ELSE [setups |-> MapSet(setups, key, updated), ret |-> updated]

\* The minimum number of candles and of oscillator samples analyzeSymbol needs.
MinCandles == 50

MinRsiValues == 5

analyzeSymbol_NoSampleGate(setups, symbol, timeframe, scan, higherTFCandles, t) ==
    LET candles == scan.candles
    IN  IF Len(candles) < MinCandles THEN [setups |-> setups, ret |-> None]
        ELSE LET key == getSetupKey(symbol, timeframe)
                 rsiValues  == scan.rsiValues
                 currentRSI == scan.currentRSI
             IN  IF currentRSI = None
                 THEN [setups |-> setups, ret |-> None]
                 ELSE LET currentPrice == At(candles, Len(candles) - 1).close
                          higherTFBullish ==
                              IF higherTFCandles # None
                              THEN [is |-> higherTFCandles.bullish]
                              ELSE None
                      IN  IF key \in DOMAIN setups
                          THEN updateExistingSetup(setups, setups[key], candles, currentRSI,
                                                   currentPrice, higherTFBullish, t)
                          ELSE detectNewSetup(setups, symbol, timeframe, scan, currentRSI,
                                              currentPrice, higherTFBullish, t)

\* analyzeSymbol: the live set after the call and the value returned.
analyzeSymbol(setups, symbol, timeframe, scan, higherTFCandles, t) ==
    LET candles == scan.candles
    IN  IF Len(candles) < MinCandles THEN [setups |-> setups, ret |-> None]
        ELSE LET key == getSetupKey(symbol, timeframe)
                 rsiValues  == scan.rsiValues
                 currentRSI == scan.currentRSI
             IN  IF currentRSI = None \/ Len(rsiValues) < MinRsiValues
                 THEN [setups |-> setups, ret |-> None]
                 ELSE LET currentPrice == At(candles, Len(candles) - 1).close
                          higherTFBullish ==
                              IF higherTFCandles # None
                              THEN [is |-> higherTFCandles.bullish]
                              ELSE None
                      IN  IF key \in DOMAIN setups
                          THEN updateExistingSetup(setups, setups[key], candles, currentRSI,
                                                   currentPrice, higherTFBullish, t)
                          ELSE detectNewSetup(setups, symbol, timeframe, scan, currentRSI,
                                              currentPrice, higherTFBullish, t)

getActiveSetupCount(setups) == Cardinality(DOMAIN setups)

\* What a call that runs new-record detection works from.
Detection(scan) ==
    [rsiLen |-> Len(scan.rsiValues),
     currentRSI |-> scan.currentRSI,
     currentPrice |-> At(scan.candles, Len(scan.candles) - 1).close,
     impulse |-> scan.impulse,
     oversoldSince |-> scan.oversoldSince,
     oversoldAfterEnd |-> scan.oversoldAfterEnd]

\* The bound on the detector's clock.
MaxNow == 2

\* new Map()
EmptyMap == [k \in {} |-> None]

DetInit ==
    /\ activeSetups = EmptyMap
    /\ now = 1
    /\ last = [op |-> "init"]
    /\ held = None

\* A caller's reference h = [key, shared, value] after a detector call that
\* left the live set `setups` and returned `ret`.  Records are objects: the
\* map stores the object it returns (set(key, setup); return setup), and an
\* update writes into the stored object.  `shared` says that the caller's
\* object is the one stored under `key`; it then shows every write of the
\* detector, and stops being shared when the key is deleted.
Track(h, setups, ret) ==
    IF h = None THEN h
    ELSE IF ~h.shared THEN h
    ELSE IF h.key \in DOMAIN setups THEN [h EXCEPT !.value = setups[h.key]]
    ELSE [h EXCEPT !.shared = FALSE,
                   !.value = IF ret # None THEN ret ELSE @]

\* analyzeSymbol(symbol, timeframe, candles, higherTFCandles).  `last` keeps
\* the call: the number of candles, of oscillator samples and the last close, the live set and the
\* key's record before it, what detection worked from (when the key had no
\* record) and the value returned.
AnalyzeSymbol(symbol, timeframe, scan, higherTFCandles) ==
    \E r \in {analyzeSymbol(activeSetups, symbol, timeframe, scan, higherTFCandles, now)} :
    LET key == getSetupKey(symbol, timeframe)
    IN  /\ activeSetups' = r.setups
        /\ last' = [op |-> "analyzeSymbol", symbol |-> symbol, timeframe |-> timeframe,
                    len |-> Len(scan.candles),
                    rsiLen |-> Len(scan.rsiValues),
                    close |-> At(scan.candles, Len(scan.candles) - 1).close,
                    before |-> activeSetups,
                    existing |-> IF key \in DOMAIN activeSetups THEN activeSetups[key]
                                 ELSE None,
                    detection |-> IF key \in DOMAIN activeSetups THEN None
                                  ELSE Detection(scan),
                    ret |-> r.ret]
        /\ held' = Track(held, r.setups,
                         IF held # None /\ held.key = key THEN r.ret ELSE None)
        /\ UNCHANGED now

RemoveSetup(symbol, timeframe) ==
    /\ activeSetups' = MapDelete(activeSetups, getSetupKey(symbol, timeframe))
    /\ last' = [op |-> "removeSetup", symbol |-> symbol, timeframe |-> timeframe,
                before |-> activeSetups]
    /\ held' = Track(held, activeSetups', None)
    /\ UNCHANGED now

ClearAllSetups ==
    /\ activeSetups' = EmptyMap
    /\ last' = [op |-> "clearAllSetups", before |-> activeSetups]
    /\ held' = Track(held, EmptyMap, None)
    /\ UNCHANGED now

\* Time passes between calls.
DetTick ==
    /\ now < MaxNow
    /\ now' = now + 1
    /\ UNCHANGED <<activeSetups, last, held>>

\* The arrays the getters return hold the stored objects themselves
\* (Array.from(map.values()), filter); an element is named by its key.
getActiveSetups(setups) == DOMAIN setups

getSetupsByTimeframe(setups, timeframe) ==
    {k \in getActiveSetups(setups) : setups[k].timeframe = timeframe}

getSetupsByState(setups, state) ==
    {k \in getActiveSetups(setups) : setups[k].state = state}

\* The caller keeps the record the last analyzeSymbol call returned.
KeepResult ==
    /\ last.op = "analyzeSymbol"
    /\ last.ret # None
    /\ LET key == getSetupKey(last.symbol, last.timeframe)
       IN  held' = [key |-> key, shared |-> key \in DOMAIN activeSetups, value |-> last.ret]
    /\ UNCHANGED <<activeSetups, now, last>>

\* The caller keeps element k of an array a getter returned.
KeepElement(op, refs) ==
    /\ \E k \in refs : held' = [key |-> k, shared |-> TRUE, value |-> activeSetups[k]]
    /\ last' = [op |-> op, before |-> activeSetups]
    /\ UNCHANGED <<activeSetups, now>>

GetActiveSetups == KeepElement("getActiveSetups", getActiveSetups(activeSetups))

GetSetupsByTimeframe(timeframe) ==
    KeepElement("getSetupsByTimeframe", getSetupsByTimeframe(activeSetups, timeframe))

GetSetupsByState(state) ==
    KeepElement("getSetupsByState", getSetupsByState(activeSetups, state))

\* The caller assigns a field of the record it holds: the state, or the entry
\* price.  The assignment is to the object, so it shows in the live set when
\* the object is the stored one.
AssignField(setup, field) ==
    IF field = "state" THEN [setup EXCEPT !.state = "watching"]
    ELSE [setup EXCEPT !.entryPrice = 0]

CallerWrite(field) ==
    /\ held # None
    /\ LET written == AssignField(held.value, field)
       IN  /\ held' = [held EXCEPT !.value = written]
           /\ activeSetups' = IF held.shared
                              THEN [activeSetups EXCEPT ![held.key] = written]
                              ELSE activeSetups
    /\ last' = [op |-> "callerWrite", before |-> activeSetups]
    /\ UNCHANGED now

\* The indicator library called on its own; `last` keeps the call.
CalculateRSI(candles, period) ==
    /\ last' = [op |-> "calculateRSI", candles |-> candles, period |-> period,
                ret |-> calculateRSI(candles, period)]
    /\ UNCHANGED <<activeSetups, now, held>>

DetectImpulseMove(candles, minPercentMove, lookbackPeriod) ==
    /\ last' = [op |-> "detectImpulseMove", candles |-> candles,
                minPercentMove |-> minPercentMove, lookbackPeriod |-> lookbackPeriod,
                ret |-> detectImpulseMove(candles, minPercentMove, lookbackPeriod)]
    /\ UNCHANGED <<activeSetups, now, held>>

-----------------------------------------------------------------------------
(* RateLimiter *)

\* The limiter's constructor arguments and the number of callers.
MaxConcurrent == 2

MinDelayMs == 2

NumTasks == 5

\* The bound on the limiter's clock.
MaxTime == 6

Tasks == 1..NumTasks

\* Date.now() is far from 0, the initial lastRequestTime: the first request
\* never waits.
RLInit ==
    /\ rlNow = MinDelayMs
    /\ running = 0
    /\ lastRequestTime = 0
    /\ queue = <<>>
    /\ pc = [t \in Tasks |-> "idle"]
    /\ wakeAt = [t \in Tasks |-> 0]
    /\ dispatchedAt = [t \in Tasks |-> 0]

\* The run closure of task t up to its first suspension, started with
\* `count` tasks counted as running: it either goes to sleep for the rest of
\* the minimum delay, or counts itself as running, stamps lastRequestTime and
\* calls fn().  `p` is pc with this call's other changes applied.
Run(t, count, p) ==
    LET timeSinceLastRequest == rlNow - lastRequestTime
    IN  IF timeSinceLastRequest < MinDelayMs
        THEN /\ pc' = [p EXCEPT ![t] = "sleeping"]
             /\ wakeAt' = [wakeAt EXCEPT ![t] = rlNow + (MinDelayMs - timeSinceLastRequest)]
             /\ running' = count
             /\ UNCHANGED <<lastRequestTime, dispatchedAt>>
        ELSE /\ pc' = [p EXCEPT ![t] = "running"]
             /\ running' = count + 1
             /\ lastRequestTime' = rlNow
             /\ dispatchedAt' = [dispatchedAt EXCEPT ![t] = rlNow]
             /\ UNCHANGED wakeAt

\* execute(fn): run at once below the cap, else queue the closure.
Execute(t) ==
    /\ pc[t] = "idle"
    /\ IF running < MaxConcurrent
       THEN Run(t, running, pc) /\ UNCHANGED queue
       ELSE /\ queue' = Append(queue, t)
            /\ pc' = [pc EXCEPT ![t] = "queued"]
            /\ UNCHANGED <<running, lastRequestTime, wakeAt, dispatchedAt>>
    /\ UNCHANGED rlNow

\* The sleep() timer of task t fires (not before it is due): the closure
\* resumes after the await.
Wake(t) ==
    /\ pc[t] = "sleeping"
    /\ rlNow >= wakeAt[t]
    /\ pc' = [pc EXCEPT ![t] = "running"]
    /\ running' = running + 1
    /\ lastRequestTime' = rlNow
    /\ dispatchedAt' = [dispatchedAt EXCEPT ![t] = rlNow]
    /\ UNCHANGED <<rlNow, queue, wakeAt>>

Complete_NoProcessQueue(t, ok) ==
    /\ pc[t] = "running"
    /\ pc' = [pc EXCEPT ![t] = IF ok THEN "resolved" ELSE "rejected"]
    /\ running' = running - 1
    /\ UNCHANGED <<rlNow, queue, lastRequestTime, wakeAt, dispatchedAt>>

\* fn() of task t settles (resolved or rejected): the finally block takes the
\* task off the count and calls processQueue, which starts the head of the
\* queue when there is one and the count is below the cap.
Complete(t, ok) ==
    /\ pc[t] = "running"
    /\ LET p == [pc EXCEPT ![t] = IF ok THEN "resolved" ELSE "rejected"]
       IN  IF Len(queue) > 0 /\ running - 1 < MaxConcurrent
           THEN /\ queue' = Tail(queue)
                /\ Run(Head(queue), running - 1, p)
           ELSE /\ pc' = p
                /\ running' = running - 1
                /\ UNCHANGED <<queue, lastRequestTime, wakeAt, dispatchedAt>>
    /\ UNCHANGED rlNow

RLTick ==
    /\ rlNow < MaxTime
    /\ rlNow' = rlNow + 1
    /\ UNCHANGED <<running, lastRequestTime, queue, pc, wakeAt, dispatchedAt>>

\* Time advances while a sleep() timer is pending, whatever the clock reads:
\* a timer that was set comes due.
TimerPending ==
    /\ \E t \in Tasks : pc[t] = "sleeping" /\ wakeAt[t] > rlNow
    /\ rlNow' = rlNow + 1
    /\ UNCHANGED <<running, lastRequestTime, queue, pc, wakeAt, dispatchedAt>>

-----------------------------------------------------------------------------
(* fetchWithRetry *)

\* The largest retries argument.
MaxRetries == 3

\* What one fetch(url) can do: answer OK, answer 429, answer another non-OK
\* status, or reject with a transport error.
Outcomes == {"ok", "429", "http", "transport"}

RateLimitBackoffMs == 1000

ErrorBackoffMs == 500

backoffMs_Flat(rateLimited, i) ==
    IF rateLimited THEN RateLimitBackoffMs ELSE ErrorBackoffMs

\* The argument of the sleep after failed attempt i (0-based).
backoffMs(rateLimited, i) ==
    IF rateLimited THEN RateLimitBackoffMs * (i + 1) ELSE ErrorBackoffMs * (i + 1)

\* new Error('Failed after retries')
FailedAfterRetries == [attempt |-> -1, kind |-> "failed after retries"]

FetchInit ==
    /\ fetchPc = "idle"
    /\ retries = 0
    /\ fetchI = 0
    /\ lastError = None
    /\ attempts = <<>>
    /\ sleeps = <<>>
    /\ thrown = None

\* fetchWithRetry(url, n): the loop is entered with i = 0.
FetchWithRetry(n) ==
    /\ fetchPc = "idle"
    /\ retries' = n
    /\ fetchPc' = IF 0 < n THEN "fetching" ELSE "thrown"
    /\ thrown' = IF 0 < n THEN thrown ELSE FailedAfterRetries
    /\ UNCHANGED <<fetchI, lastError, attempts, sleeps>>

\* await fetch(url) settles with the given outcome: return on OK; on 429 sleep
\* and continue; otherwise the error (thrown by fetch, or thrown for the
\* status) is caught, kept in lastError, and the shorter sleep follows.
FetchSettles(outcome) ==
    /\ fetchPc = "fetching"
    /\ attempts' = Append(attempts, outcome)
    /\ IF outcome = "ok"
       THEN /\ fetchPc' = "returned"
            /\ UNCHANGED <<lastError, sleeps>>
       ELSE IF outcome = "429"
       THEN /\ fetchPc' = "sleeping"
            /\ sleeps' = Append(sleeps, backoffMs(TRUE, fetchI))
            /\ UNCHANGED lastError
       ELSE /\ fetchPc' = "sleeping"
            /\ lastError' = [attempt |-> fetchI, kind |-> outcome]
            /\ sleeps' = Append(sleeps, backoffMs(FALSE, fetchI))
    /\ UNCHANGED <<retries, fetchI, thrown>>

\* The sleep ends: i++, then the next attempt, or the throw after the loop.
FetchResumes ==
    /\ fetchPc = "sleeping"
    /\ fetchI' = fetchI + 1
    /\ IF fetchI + 1 < retries
       THEN fetchPc' = "fetching" /\ UNCHANGED thrown
       ELSE /\ fetchPc' = "thrown"
            /\ thrown' = IF lastError # None THEN lastError ELSE FailedAfterRetries
    /\ UNCHANGED <<retries, lastError, attempts, sleeps>>

-----------------------------------------------------------------------------
(* getKlines and batchGetKlines *)

\* The default of fetchWithRetry's retries parameter, which getKlines uses.
DefaultRetries == 3

\* The symbols argument: the first n of these, n up to one more than the
\* limiter's cap.  Task t of the limiter is the getKlines call of symbols[t].
AllSymbols == <<"BTC", "ETH", "SOL", "XRP", "ADA", "DOGE">>

BatchInputs == { SubSeq(AllSymbols, 1, n) : n \in 0..(MaxConcurrent + 1) }

\* What response.json() can give for the request of task t: an array of kline
\* rows <<time, open, high, low, close, volume>> (t rows, priced by t), or
\* something that is not an array (an error object).
KlineBodies(t) ==
    { [isArray |-> TRUE,
       rows |-> [i \in 1..t |-> <<1000 + 60 * i, 10 * t, 10 * t + 2, 10 * t - 1, 10 * t + 1, i>>]],
      [isArray |-> FALSE, rows |-> <<>>] }

\* data.map(k => ({ timestamp: k[0], open: k[1], ... })), indices from 0.
toCandles(rows) ==
    [i \in 1..Len(rows) |->
        [timestamp |-> At(rows[i], 0), open |-> At(rows[i], 1), high |-> At(rows[i], 2),
         low |-> At(rows[i], 3), close |-> At(rows[i], 4), volume |-> At(rows[i], 5)]]

BatchInit ==
    /\ batchPc = "idle"
    /\ symbols = <<>>
    /\ resultsMap = EmptyMap
    /\ completed = 0
    /\ progress = <<>>
    /\ tries = [t \in Tasks |-> 0]
    /\ backoff = [t \in Tasks |-> FALSE]
    /\ settled = [t \in Tasks |-> None]

\* The limiter's fields as one value, and execute(fn) on such a value at the
\* present time: the calls of one synchronous loop follow one another with no
\* other event in between.
LimiterState ==
    [running |-> running, lastRequestTime |-> lastRequestTime, queue |-> queue,
     pc |-> pc, wakeAt |-> wakeAt, dispatchedAt |-> dispatchedAt]

runFrom(st, t) ==
    LET timeSinceLastRequest == rlNow - st.lastRequestTime
    IN  IF timeSinceLastRequest < MinDelayMs
        THEN [st EXCEPT !.pc[t] = "sleeping",
                        !.wakeAt[t] = rlNow + (MinDelayMs - timeSinceLastRequest)]
        ELSE [st EXCEPT !.pc[t] = "running",
                        !.running = @ + 1,
                        !.lastRequestTime = rlNow,
                        !.dispatchedAt[t] = rlNow]

executeFrom(st, t) ==
    IF st.running < MaxConcurrent THEN runFrom(st, t)
    ELSE [st EXCEPT !.queue = Append(@, t), !.pc[t] = "queued"]

RECURSIVE executeAll(_, _, _)
executeAll(st, t, n) ==
    IF t > n THEN st ELSE executeAll(executeFrom(st, t), t + 1, n)

\* batchGetKlines(syms, timeframe, onProgress) up to `await Promise.all`:
\* symbols.map runs each callback up to its first await, that is getKlines ->
\* rateLimiter.execute for every symbol in turn.  With no symbol, Promise.all
\* resolves and the empty map is returned.
BatchGetKlines(syms) ==
    /\ batchPc = "idle"
    /\ symbols' = syms
    /\ resultsMap' = EmptyMap
    /\ completed' = 0
    /\ progress' = <<>>
    /\ batchPc' = IF Len(syms) = 0 THEN "returned" ELSE "pending"
    /\ LET st == executeAll(LimiterState, 1, Len(syms))
       IN  /\ running' = st.running
           /\ lastRequestTime' = st.lastRequestTime
           /\ queue' = st.queue
           /\ pc' = st.pc
           /\ wakeAt' = st.wakeAt
           /\ dispatchedAt' = st.dispatchedAt
    /\ UNCHANGED <<rlNow, tries, backoff, settled>>

symbolDone_StoresFailures(b, symbol, ok, candles) ==
    [results   |-> MapSet(b.results, symbol, candles),
     completed |-> b.completed + 1,
     progress  |-> Append(b.progress, <<b.completed + 1, b.total>>)]

symbolDone_CountsSuccessOnly(b, symbol, ok, candles) ==
    [results   |-> IF ok THEN MapSet(b.results, symbol, candles) ELSE b.results,
     completed |-> IF ok THEN b.completed + 1 ELSE b.completed,
     progress  |-> IF ok THEN Append(b.progress, <<b.completed + 1, b.total>>)
                   ELSE b.progress]

\* The callback of symbols.map after `await getKlines`: results.set on
\* success, nothing but a log line on failure, and in both cases completed++
\* and onProgress(completed, symbols.length).
symbolDone(b, symbol, ok, candles) ==
    [results   |-> IF ok THEN MapSet(b.results, symbol, candles) ELSE b.results,
     completed |-> b.completed + 1,
     progress  |-> Append(b.progress, <<b.completed + 1, b.total>>)]

\* The getKlines call of task t settles with `out`: the limiter's finally
\* block (Complete), then the callback of the symbol, then, when this was the
\* last of the promises, the return of batchGetKlines.
KlinesSettle(t, out) ==
    LET ok == out.kind = "klines"
        b  == symbolDone([results |-> resultsMap, completed |-> completed,
                          progress |-> progress, total |-> Len(symbols)],
                         symbols[t], ok, IF ok THEN toCandles(out.body.rows) ELSE <<>>)
    IN  /\ Complete(t, ok)
        /\ settled' = [settled EXCEPT ![t] = out]
        /\ resultsMap' = b.results
        /\ completed' = b.completed
        /\ progress' = b.progress
        /\ batchPc' = IF \A u \in 1..Len(symbols) : settled'[u] # None
                       THEN "returned" ELSE batchPc
        /\ UNCHANGED symbols

\* fn() of task t, the body of getKlines: `await fetch(url)` of fetchWithRetry
\* settles.  An OK response is read; an array is mapped to candles and
\* returned, anything else is an error thrown at once.  A 429, another
\* non-OK status and a transport error are followed by the backoff sleep.
KlinesFetchSettles(t, fetched, body) ==
    /\ batchPc = "pending"
    /\ t \in 1..Len(symbols)
    /\ pc[t] = "running"
    /\ ~backoff[t]
    /\ IF fetched = "ok"
       THEN /\ KlinesSettle(t, IF body.isArray THEN [kind |-> "klines", body |-> body]
                                   ELSE [kind |-> "invalid", body |-> body])
            /\ UNCHANGED <<tries, backoff>>
       ELSE /\ backoff' = [backoff EXCEPT ![t] = TRUE]
            /\ UNCHANGED <<rlVars, batchPc, symbols, resultsMap, completed, progress, tries,
                           settled>>

\* The backoff sleep of task t ends: i++, and either the next attempt or,
\* after the last one, the throw that makes getKlines fail.
KlinesBackoffEnds(t) ==
    /\ batchPc = "pending"
    /\ pc[t] = "running"
    /\ backoff[t]
    /\ backoff' = [backoff EXCEPT ![t] = FALSE]
    /\ tries' = [tries EXCEPT ![t] = @ + 1]
    /\ IF tries[t] + 1 < DefaultRetries
       THEN UNCHANGED <<rlVars, batchPc, symbols, resultsMap, completed, progress, settled>>
       ELSE KlinesSettle(t, [kind |-> "exhausted", body |-> None])

-----------------------------------------------------------------------------
(* Specifications *)

Init == DetInit /\ RLInit /\ FetchInit /\ BatchInit

\* The detector under any sequence of calls on the given keys with the given
\* inputs.
DetNext(keys, scans, higherTFs) ==
    \/ \E key \in keys, scan \in scans, higherTFCandles \in higherTFs :
          AnalyzeSymbol(key[1], key[2], scan, higherTFCandles) /\ UNCHANGED apiVars
    \/ \E key \in keys : RemoveSetup(key[1], key[2]) /\ UNCHANGED apiVars
    \/ ClearAllSetups /\ UNCHANGED apiVars
    \/ DetTick /\ UNCHANGED apiVars

\* One key, every input.
Next == DetNext(Scanned, Scans, HigherTFInputs)

Spec == Init /\ [][Next]_vars

\* Every key, the inputs that create a record, let it bounce and end it.
KeyScans ==
    { Scan(MkSeries(Up50, tail)) : tail \in { <<102, 98>>, <<102, 100>>, <<98, 101>> } }

NextKeys == DetNext(Keys, KeyScans, {None})

SpecKeys == Init /\ [][NextKeys]_vars

\* The detector constructed with the long oscillator period.
NextLongPeriod == DetNext(Keys, LongScans, {None})

SpecLongPeriod == Init /\ [][NextLongPeriod]_vars

\* The detector with a caller that keeps and writes to the records it is
\* handed: one key; inputs that create a triggered record, let it bounce, end
\* it, and create a record on another impulse.
UpWide50 == [n |-> 50, base |-> 100, lowAt |-> 12, lowPx |-> 88, highAt |-> 42, highPx |-> 112, pullVol |-> 5]

CallerScans ==
    { Scan(MkSeries(Up50, tail)) : tail \in { <<102, 98>>, <<104, 101>>, <<98, 101>> } }
    \cup { Scan(MkSeries(UpWide50, <<100, 97>>)) }

NextCaller ==
    \/ DetNext(Scanned, CallerScans, {None})
    \/ KeepResult /\ UNCHANGED apiVars
    \/ GetActiveSetups /\ UNCHANGED apiVars
    \/ \E timeframe \in Timeframes : GetSetupsByTimeframe(timeframe) /\ UNCHANGED apiVars
    \/ \E state \in {"triggered", "deep_oversold", "bouncing"} :
          GetSetupsByState(state) /\ UNCHANGED apiVars
    \/ \E field \in {"state", "entryPrice"} : CallerWrite(field) /\ UNCHANGED apiVars

SpecCaller == Init /\ [][NextCaller]_vars

\* The detector fed, with and without higher-timeframe candles, inputs that
\* create a triggered record, deepen it at another price, let it bounce and
\* end it.
FrameScans ==
    { Scan(MkSeries(Up50, tail)) :
          tail \in { <<102, 98>>, <<100, 96>>, <<104, 101>>, <<98, 101>> } }

NextFrame == DetNext(Scanned, FrameScans, HigherTFInputs)

SpecFrame == Init /\ [][NextFrame]_vars

\* One call of the indicator library, with any of the inputs (its functions
\* keep no state between calls).
NextLibrary ==
    \/ \E candles \in RsiSeries, period \in RsiPeriods :
          last.op = "init" /\ CalculateRSI(candles, period) /\ UNCHANGED apiVars
    \/ \E candles \in ImpulseSeries, minPercentMove \in MinPercentMoves :
          /\ last.op = "init"
          /\ DetectImpulseMove(candles, minPercentMove, ShortLookback)
          /\ UNCHANGED apiVars

SpecLibrary == Init /\ [][NextLibrary]_vars

\* The rate limiter under any interleaving of callers, timers and completions.
\* Tasks are numbered in the order of their execute calls: the next call is
\* that of the lowest task that has not called yet.
Arriving == {t \in Tasks : pc[t] = "idle" /\ \A u \in 1..(t - 1) : pc[u] # "idle"}

NextLimiter ==
    \/ \E t \in Arriving : Execute(t) /\ UNCHANGED <<detVars, fetchVars, batchVars>>
    \/ \E t \in Tasks : Wake(t) /\ UNCHANGED <<detVars, fetchVars, batchVars>>
    \/ \E t \in Tasks, ok \in BOOLEAN : Complete(t, ok) /\ UNCHANGED <<detVars, fetchVars, batchVars>>
    \/ RLTick /\ UNCHANGED <<detVars, fetchVars, batchVars>>

SpecLimiter == Init /\ [][NextLimiter]_vars

\* The rate limiter with the scheduling the runtime gives: a pending timer
\* comes due, a due timer's callback runs, and (what the eventual dispatch of
\* every request is conditional on) every task that was dispatched settles.
\* Arrivals are not forced; the first LiveCallers tasks call.
\* The number of callers: two more than the cap.
LiveCallers == 4

NextLimiterLive ==
    \/ \E t \in Arriving \cap 1..LiveCallers : Execute(t) /\ UNCHANGED <<detVars, fetchVars, batchVars>>
    \/ \E t \in Tasks : Wake(t) /\ UNCHANGED <<detVars, fetchVars, batchVars>>
    \/ \E t \in Tasks, ok \in BOOLEAN : Complete(t, ok) /\ UNCHANGED <<detVars, fetchVars, batchVars>>
    \/ RLTick /\ UNCHANGED <<detVars, fetchVars, batchVars>>
    \/ TimerPending /\ UNCHANGED <<detVars, fetchVars, batchVars>>

LimiterFairness ==
    /\ WF_vars(TimerPending /\ UNCHANGED <<detVars, fetchVars, batchVars>>)
    /\ \A t \in Tasks :
          /\ WF_vars(Wake(t) /\ UNCHANGED <<detVars, fetchVars, batchVars>>)
          /\ WF_vars((\E ok \in BOOLEAN : Complete(t, ok)) /\ UNCHANGED <<detVars, fetchVars, batchVars>>)

SpecLimiterLive == Init /\ [][NextLimiterLive]_vars /\ LimiterFairness

\* The tasks that are not getKlines calls of the batch: other requests through
\* the shared limiter (getCurrentPrice), made before the batch is started.
OtherCallers == (MaxConcurrent + 2)..NumTasks

\* One batchGetKlines call on the shared limiter, idle or busy with other
\* requests, with any outcome of every fetch.  The clock advances to the
\* pending timers.
NextBatch ==
    \/ \E syms \in BatchInputs : BatchGetKlines(syms) /\ UNCHANGED <<detVars, fetchVars>>
    \/ \E t \in OtherCallers :
          /\ batchPc = "idle"
          /\ \A u \in OtherCallers : u < t => pc[u] # "idle"
          /\ Execute(t)
          /\ UNCHANGED <<detVars, fetchVars, batchVars>>
    \/ \E t \in OtherCallers :
          /\ batchPc = "pending"
          /\ Complete(t, TRUE)
          /\ UNCHANGED <<detVars, fetchVars, batchVars>>
    \/ \E t \in Tasks : Wake(t) /\ UNCHANGED <<detVars, fetchVars, batchVars>>
    \/ TimerPending /\ UNCHANGED <<detVars, fetchVars, batchVars>>
    \/ \E t \in Tasks, fetched \in Outcomes :
          \E body \in KlineBodies(t) :
              KlinesFetchSettles(t, fetched, body) /\ UNCHANGED <<detVars, fetchVars>>
    \/ \E t \in Tasks : KlinesBackoffEnds(t) /\ UNCHANGED <<detVars, fetchVars>>

\* Timers come due and their callbacks run; every fetch attempt settles, and
\* so does every other request.
BatchFairness ==
    /\ WF_vars(TimerPending /\ UNCHANGED <<detVars, fetchVars, batchVars>>)
    /\ \A t \in OtherCallers :
          WF_vars(batchPc = "pending" /\ Complete(t, TRUE)
                  /\ UNCHANGED <<detVars, fetchVars, batchVars>>)
    /\ \A t \in Tasks :
          /\ WF_vars(Wake(t) /\ UNCHANGED <<detVars, fetchVars, batchVars>>)
          /\ WF_vars(KlinesBackoffEnds(t) /\ UNCHANGED <<detVars, fetchVars>>)
          /\ WF_vars((\E fetched \in Outcomes :
                          \E body \in KlineBodies(t) : KlinesFetchSettles(t, fetched, body))
                     /\ UNCHANGED <<detVars, fetchVars>>)

SpecBatch == Init /\ [][NextBatch]_vars /\ BatchFairness

\* One fetchWithRetry call with any retries argument and any outcomes.
NextFetch ==
    \/ \E n \in 1..MaxRetries : FetchWithRetry(n) /\ UNCHANGED <<detVars, rlVars, batchVars>>
    \/ \E outcome \in Outcomes : FetchSettles(outcome) /\ UNCHANGED <<detVars, rlVars, batchVars>>
    \/ FetchResumes /\ UNCHANGED <<detVars, rlVars, batchVars>>

SpecFetch == Init /\ [][NextFetch]_vars

-----------------------------------------------------------------------------
(* Properties of the detector *)

Analyzed == last.op = "analyzeSymbol"

\* The key of the last call, as the claims name it: symbol and timeframe.
LastKey == last.symbol \o "-" \o last.timeframe

LastLive == LastKey \in DOMAIN activeSetups

\* The last call was analyzeSymbol for a key that had a record / had none.
Updating == Analyzed /\ last.existing # None

Detecting == Analyzed /\ last.existing = None

\* The last call got past the data gate (50 candles, 5 oscillator samples).
Evaluated == Analyzed /\ last.len >= MinCandles /\ last.rsiLen >= MinRsiValues

LiveStates == {"triggered", "deep_oversold", "bouncing"}

\* C1: the live set holds at most one record per (symbol, timeframe), and the
\* record stored under a key carries that key's symbol and timeframe.
C1_OneRecordPerKey ==
    /\ \A k \in DOMAIN activeSetups :
          k = activeSetups[k].symbol \o "-" \o activeSetups[k].timeframe
    /\ \A symbol \in Symbols, timeframe \in Timeframes :
          Cardinality({k \in DOMAIN activeSetups :
                          /\ activeSetups[k].symbol = symbol
                          /\ activeSetups[k].timeframe = timeframe}) <= 1

\* Two keys of one symbol are live after a removeSetup that removed a third
\* key's record.
C1_Witness ==
    /\ last.op = "removeSetup"
    /\ LastKey \in DOMAIN last.before
    /\ DOMAIN activeSetups = {"BTC-5m", "BTC-1h"}

\* C2: no live record is in watching or played_out.
C2_LiveRecordsAreActionable ==
    \A k \in DOMAIN activeSetups : activeSetups[k].state \in LiveStates

\* An update took a record to played_out: the call returned the terminal
\* record and the key is no longer live.
C2_Witness ==
    /\ Updating
    /\ last.ret # None
    /\ last.ret.state = "played_out"
    /\ ~LastLive

\* C3: new-record detection with two or more oscillator samples below the
\* oversold threshold at or after the impulse's end creates no record.
C3_NoRecordAfterSecondOversold ==
    (Detecting /\ last.detection.impulse # None /\ last.detection.oversoldAfterEnd >= 2)
        => (last.ret = None /\ ~LastLive)

\* The conditions C6 names for a creation.
UpMoveInPullback(d) ==
    /\ d.impulse # None
    /\ d.impulse.direction = "up"
    /\ FracGe(d.impulse.percentMove, config.minImpulsePercent)
    /\ d.currentPrice < d.impulse.endPrice
    /\ d.currentPrice > d.impulse.startPrice

\* C6 as stated: a record is created only for a key without a record, on an
\* upward move of at least the minimum percent with the last close strictly
\* inside it; in every other case the live set is unchanged.
C6_Original ==
    Analyzed =>
        /\ (Detecting /\ LastLive) => UpMoveInPullback(last.detection)
        /\ ~(Detecting /\ UpMoveInPullback(last.detection)) => activeSetups = last.before

\* C6 amended: ... in every other case no record is created, and a call for a
\* key without a record leaves the live set unchanged.
C6_CreatesOnlyInPullback ==
    Analyzed =>
        /\ (Detecting /\ LastLive) => UpMoveInPullback(last.detection)
        /\ ~(Detecting /\ UpMoveInPullback(last.detection)) =>
              /\ DOMAIN activeSetups \subseteq DOMAIN last.before
              /\ Detecting => activeSetups = last.before

\* Detection ran on an upward move with the oscillator oversold and the last
\* close exactly at the move's low: nothing was created.
C6_Witness ==
    /\ Detecting
    /\ last.detection.impulse # None
    /\ last.detection.impulse.direction = "up"
    /\ last.detection.currentPrice = last.detection.impulse.startPrice
    /\ FracLt(last.detection.currentRSI, config.rsiOversoldThreshold)
    /\ last.ret = None
    /\ ~LastLive

\* C7: a new record is deep_oversold below the deep threshold and triggered
\* otherwise (below the oversold threshold); entryPrice is the last close,
\* rsiAtTrigger the current oscillator value, and the trigger time is set.
C7_NewRecordFields ==
    (Detecting /\ LastLive) =>
        LET setup == activeSetups[LastKey]
            d     == last.detection
        IN  /\ last.ret = setup
            /\ FracLt(d.currentRSI, config.rsiOversoldThreshold)
            /\ setup.state = IF FracLt(d.currentRSI, config.rsiDeepOversoldThreshold)
                             THEN "deep_oversold" ELSE "triggered"
            /\ setup.entryPrice = last.close
            /\ setup.rsiAtTrigger = d.currentRSI
            /\ setup.triggeredAt \in 1..now
            /\ setup.triggeredAt = setup.detectedAt

\* A record was created in triggered (oscillator between the thresholds).
C7_Witness ==
    /\ Detecting
    /\ LastLive
    /\ activeSetups[LastKey].state = "triggered"
    /\ ~FracLt(last.detection.currentRSI, config.rsiDeepOversoldThreshold)

\* C8 as stated: a call whose last close is below the stored impulse low
\* removes the key's record.
C8_Original ==
    (Updating /\ last.close < last.existing.impulseLow) => ~LastLive

\* C8 amended: ... a call that passes the data gate ...
C8_RemovedBelowImpulseLow ==
    (Updating /\ Evaluated /\ last.close < last.existing.impulseLow)
        => (~LastLive /\ last.ret # None /\ last.ret.state = "played_out")

\* A bouncing record was removed on a close below the impulse low with the
\* oscillator at 50, where no other rule ends it.
C8_Witness ==
    /\ Updating
    /\ Evaluated
    /\ last.existing.state = "bouncing"
    /\ last.close < last.existing.impulseLow
    /\ last.ret.currentRSI = Frac(50, 1)
    /\ ~LastLive

\* C9: an update of a triggered or deep_oversold record with the last close at
\* 99% of the impulse high or more ends it, whatever the oscillator; a
\* bouncing record with such a close, the oscillator at or above the oversold
\* threshold and at most 50, stays live and bouncing.
C9_TargetReached ==
    (Updating /\ last.ret # None /\ 100 * last.ret.currentPrice >= 99 * last.existing.impulseHigh)
        => /\ last.existing.state \in {"triggered", "deep_oversold"}
                => (~LastLive /\ last.ret.state = "played_out")
           /\ ( /\ last.existing.state = "bouncing"
                /\ FracGe(last.ret.currentRSI, config.rsiOversoldThreshold)
                /\ ~FracGt(last.ret.currentRSI, 50) )
                => (LastLive /\ activeSetups[LastKey].state = "bouncing")

\* A triggered or deep_oversold record was ended at the target with the
\* oscillator still below the oversold threshold.
C9_Witness ==
    /\ Updating
    /\ last.ret # None
    /\ last.existing.state \in {"triggered", "deep_oversold"}
    /\ 100 * last.ret.currentPrice >= 99 * last.existing.impulseHigh
    /\ FracLt(last.ret.currentRSI, config.rsiOversoldThreshold)
    /\ ~LastLive

\* C10: an update of a bouncing record with the oscillator below the oversold
\* threshold ends it; whatever the operation, a record that was bouncing
\* before it is bouncing or no longer live after it.
C10_BouncingNeverRetriggers ==
    /\ (Updating /\ last.existing.state = "bouncing") =>
           ((last.ret # None /\ FracLt(last.ret.currentRSI, config.rsiOversoldThreshold))
               => (~LastLive /\ last.ret.state = "played_out"))
    /\ last.op # "init" =>
           \A k \in DOMAIN last.before :
               (last.before[k].state = "bouncing" /\ k \in DOMAIN activeSetups)
                   => activeSetups[k].state = "bouncing"

\* A bouncing record was ended by the oscillator falling below the oversold
\* threshold, with the price inside the impulse.
C10_Witness ==
    /\ Updating
    /\ last.existing.state = "bouncing"
    /\ last.ret # None
    /\ FracLt(last.ret.currentRSI, config.rsiOversoldThreshold)
    /\ last.close >= last.existing.impulseLow
    /\ ~LastLive

-----------------------------------------------------------------------------
(* Properties of the RateLimiter *)

\* A task is in flight from the moment fn() is called until it settles.
InFlight == {t \in Tasks : pc[t] = "running"}

Dispatched == {t \in Tasks : pc[t] \in {"running", "resolved", "rejected"}}

\* C4: the number of tasks dispatched and not yet completed never exceeds
\* maxConcurrent.
C4_InFlightWithinCap == Cardinality(InFlight) <= MaxConcurrent

\* C5: any two dispatches are at least minDelayMs apart.
C5_DispatchesSpaced ==
    \A t, u \in Dispatched :
        t # u => Abs(dispatchedAt[t] - dispatchedAt[u]) >= MinDelayMs

-----------------------------------------------------------------------------
(* Properties of the progression of a record *)

\* The last call updated a record and none of the three invalidation rules
\* applies to the record's previous state, the call's last close and its
\* oscillator value.
NoRuleFires ==
    /\ Updating
    /\ last.ret # None
    /\ ~(last.close < last.existing.impulseLow)
    /\ ~( /\ last.existing.state \in {"triggered", "deep_oversold"}
          /\ 100 * last.close >= 99 * last.existing.impulseHigh )
    /\ ~( /\ last.existing.state = "bouncing"
          /\ FracLt(last.ret.currentRSI, config.rsiOversoldThreshold) )

\* The call ended the record / left it live in the given state.
Ended == ~LastLive /\ last.ret.state = "played_out"

LiveIn(state) == LastLive /\ activeSetups[LastKey].state = state /\ last.ret.state = state

\* C11: a triggered or deep_oversold record that is not invalidated, with the
\* oscillator at or above the oversold threshold, is ended when the oscillator
\* is above 40 and becomes bouncing (and stays live) when it is at most 40.
C11_BounceFromTriggered ==
    ( /\ NoRuleFires
      /\ last.existing.state \in {"triggered", "deep_oversold"}
      /\ FracGe(last.ret.currentRSI, config.rsiOversoldThreshold) )
        => IF FracGt(last.ret.currentRSI, 40) THEN Ended ELSE LiveIn("bouncing")

\* A triggered record became bouncing with the oscillator at exactly 40.
C11_Witness ==
    /\ NoRuleFires
    /\ last.existing.state = "triggered"
    /\ last.ret.currentRSI = Frac(40, 1)
    /\ LiveIn("bouncing")

C13_OversoldStates ==
    NoRuleFires =>
        /\ FracLt(last.ret.currentRSI, config.rsiDeepOversoldThreshold)
              => LiveIn("deep_oversold")
        /\ ( /\ FracGe(last.ret.currentRSI, config.rsiDeepOversoldThreshold)
             /\ FracLt(last.ret.currentRSI, config.rsiOversoldThreshold) )
              => LiveIn("triggered")

\* A triggered record became deep_oversold.
C13_Witness ==
    /\ NoRuleFires
    /\ last.existing.state = "triggered"
    /\ FracLt(last.ret.currentRSI, config.rsiDeepOversoldThreshold)
    /\ LiveIn("deep_oversold")

\* An invalidation rule applies to the updated record.
RuleFires == Updating /\ last.ret # None /\ ~NoRuleFires

\* No rule applies and the progression table ends the record.
TableEnds ==
    /\ NoRuleFires
    /\ FracGe(last.ret.currentRSI, config.rsiOversoldThreshold)
    /\ \/ /\ last.existing.state \in {"triggered", "deep_oversold"}
          /\ FracGt(last.ret.currentRSI, 40)
       \/ /\ last.existing.state = "bouncing"
          /\ FracGt(last.ret.currentRSI, 50)

\* C14: when an update ends in a terminal outcome, by an invalidation rule or
\* by the progression table, analyzeSymbol returns the record as played_out,
\* the key has no record afterwards and the live count has dropped by one.
C14_TerminalIsReturnedAndRemoved ==
    (RuleFires \/ TableEnds) =>
        /\ last.ret.state = "played_out"
        /\ last.ret.symbol = last.symbol /\ last.ret.timeframe = last.timeframe
        /\ ~LastLive
        /\ Cardinality(DOMAIN activeSetups) = Cardinality(DOMAIN last.before) - 1

\* A record was ended by an invalidation rule while two other keys stayed live.
C14_Witness ==
    /\ RuleFires
    /\ last.ret.state = "played_out"
    /\ Cardinality(DOMAIN last.before) = 3
    /\ Cardinality(DOMAIN activeSetups) = 2

\* C15: analyzeSymbol with fewer than 50 candles, or with candles yielding
\* fewer than 5 oscillator samples, returns no result and leaves the live set
\* as it was, every field of the key's record included.
C15_InsufficientDataChangesNothing ==
    (Analyzed /\ (last.len < 50 \/ last.rsiLen < 5))
        => (last.ret = None /\ activeSetups = last.before)

\* A call with 50 candles and fewer than 5 samples, closing below the impulse
\* low of the key's record, left that record as it was.
C15_Witness ==
    /\ Updating
    /\ last.len >= 50
    /\ last.rsiLen < 5
    /\ last.close < last.existing.impulseLow
    /\ last.ret = None
    /\ LastLive
    /\ activeSetups[LastKey] = last.existing

-----------------------------------------------------------------------------
(* Properties of removed records and of the records handed to callers *)

\* The record is the one detection builds at time t from the input of the
\* call: impulse bounds, entry price, oscillator at trigger, state, timestamps.
BuiltFromCall(setup, call, t) ==
    /\ call.existing = None
    /\ call.ret = setup
    /\ setup.impulseHigh = call.detection.impulse.endPrice
    /\ setup.impulseLow = call.detection.impulse.startPrice
    /\ setup.entryPrice = call.close
    /\ setup.currentPrice = call.close
    /\ setup.rsiAtTrigger = call.detection.currentRSI
    /\ setup.state = IF FracLt(call.detection.currentRSI, config.rsiDeepOversoldThreshold)
                     THEN "deep_oversold" ELSE "triggered"
    /\ setup.detectedAt = t
    /\ setup.triggeredAt = t
    /\ setup.lastUpdated = t

\* C16: removeSetup, clearAllSetups and a terminal outcome leave the key
\* without a record, and a key gets a record only by new-record detection in
\* an analyzeSymbol call for it, the record being built from that call's input
\* and time alone.
C16_RemovedStartsClean ==
    [][ /\ last'.op = "removeSetup"
            => (last'.symbol \o "-" \o last'.timeframe) \notin DOMAIN activeSetups'
        /\ last'.op = "clearAllSetups" => DOMAIN activeSetups' = {}
        /\ (last'.op = "analyzeSymbol" /\ last'.ret # None /\ last'.ret.state = "played_out")
            => (last'.symbol \o "-" \o last'.timeframe) \notin DOMAIN activeSetups'
        /\ \A k \in DOMAIN activeSetups' \ DOMAIN activeSetups :
              /\ last'.op = "analyzeSymbol"
              /\ k = last'.symbol \o "-" \o last'.timeframe
              /\ BuiltFromCall(activeSetups'[k], last', now) ]_vars

\* A record was created for a key whose earlier record had ended; the caller
\* still holds the ended record, which differs from the new one in impulse
\* bounds, entry price and state.
C16_Witness ==
    /\ Detecting
    /\ LastLive
    /\ held # None
    /\ held.key = LastKey
    /\ ~held.shared
    /\ held.value.state = "played_out"
    /\ held.value.impulseHigh # activeSetups[LastKey].impulseHigh
    /\ held.value.impulseLow # activeSetups[LastKey].impulseLow
    /\ held.value.entryPrice # activeSetups[LastKey].entryPrice

\* C17: a caller changing a field of a record it was handed does not change
\* any record of the live set.
C17_CallerCannotChangeLiveSet ==
    last.op = "callerWrite" => activeSetups = last.before

-----------------------------------------------------------------------------
(* Properties of the order of dispatch *)

Waiting == {t \in Tasks : pc[t] \in {"queued", "sleeping"}}

\* C18: requests are dispatched in arrival order: the queue holds the waiting
\* requests in arrival order, and no request is dispatched while a request
\* that arrived before it is still waiting.
C18_DispatchedInArrivalOrder ==
    /\ \A i, j \in 1..Len(queue) : i < j => queue[i] < queue[j]
    /\ \A t \in Waiting, u \in Dispatched : u < t

-----------------------------------------------------------------------------
(* Properties of fetchWithRetry *)

\* C19: when every attempt has failed, the error thrown is the error of the
\* last failed attempt.
C19_LastErrorSurfaced ==
    fetchPc = "thrown" =>
        /\ thrown.attempt = Len(attempts) - 1
        /\ thrown.kind = attempts[Len(attempts)]

\* C20: at most `retries` attempts are made, none after an OK response, and
\* the k-th failed attempt is followed by a wait of k x 1000 ms after a 429
\* response and of k x 500 ms after any other failure.
C20_AttemptsAndBackoff ==
    /\ Len(attempts) <= retries
    /\ \A k \in 1..Len(attempts) :
          attempts[k] = "ok" => (k = Len(attempts) /\ fetchPc = "returned")
    /\ fetchPc = "returned" => attempts[Len(attempts)] = "ok"
    /\ Len(sleeps) = Cardinality({k \in 1..Len(attempts) : attempts[k] # "ok"})
    /\ \A k \in 1..Len(sleeps) :
          sleeps[k] = IF attempts[k] = "429" THEN k * 1000 ELSE k * 500

\* A call with retries = 3 gave up after a 429, another non-OK status and a
\* transport error, having waited 1000, 1000 and 1500 ms.
C20_Witness ==
    /\ fetchPc = "thrown"
    /\ retries = 3
    /\ attempts = <<"429", "http", "transport">>
    /\ sleeps = <<1000, 1000, 1500>>

-----------------------------------------------------------------------------
(* Properties of an update *)

\* The fields an update is to leave as they were set at creation.
CreationFields ==
    {"symbol", "timeframe", "impulseHigh", "impulseLow", "impulseStartTime",
     "impulseEndTime", "impulsePercentMove", "entryPrice", "rsiAtTrigger",
     "detectedAt", "triggeredAt", "impulseAvgVolume", "pullbackAvgVolume",
     "volumeContracting"}

\* C25: an analyzeSymbol call that updates an existing record sets its current
\* oscillator, current price and last-update time from the call, sets the
\* higher-timeframe flag when higher-timeframe candles are supplied and leaves
\* it otherwise, and leaves every field set at creation as it was; only the
\* state may change besides.
C25_UpdateChangesOnlyCurrentFields ==
    [][ \A key \in Scanned, scan \in FrameScans, higherTFCandles \in HigherTFInputs :
          ( /\ AnalyzeSymbol(key[1], key[2], scan, higherTFCandles)
            /\ last'.existing # None
            /\ last'.ret # None )
          => LET old == last'.existing
                 new == last'.ret
             IN  /\ DOMAIN new = DOMAIN old
                 /\ \A f \in CreationFields : new[f] = old[f]
                 /\ new.currentRSI = scan.currentRSI
                 /\ new.currentPrice = At(scan.candles, Len(scan.candles) - 1).close
                 /\ new.lastUpdated = now
                 /\ new.higherTFBullish =
                        IF higherTFCandles = None THEN old.higherTFBullish
                        ELSE [is |-> higherTFCandles.bullish]
                 /\ (key[1] \o "-" \o key[2]) \in DOMAIN activeSetups'
                        => activeSetups'[key[1] \o "-" \o key[2]] = new ]_vars

\* A record created triggered at 98 with the oscillator at 20 was updated to
\* deep_oversold at 96 at a later time with higher-timeframe candles supplied:
\* entry price, oscillator at trigger and trigger time are those of creation.
C25_Witness ==
    /\ Updating
    /\ last.existing.state = "triggered"
    /\ last.existing.higherTFBullish = None
    /\ LiveIn("deep_oversold")
    /\ last.ret.currentPrice = 96
    /\ last.ret.entryPrice = 98
    /\ last.ret.rsiAtTrigger = Frac(20, 1)
    /\ last.ret.higherTFBullish # None
    /\ last.ret.lastUpdated > last.ret.triggeredAt

-----------------------------------------------------------------------------
(* Properties of the impulse fields of a new record *)

\* The index, in the series handed to analyzeSymbol, of the first candle whose
\* low / high is the given price.
CandleWithLow(candles, price) ==
    CHOOSE i \in 0..(Len(candles) - 1) :
        /\ At(candles, i).low = price
        /\ \A j \in 0..(i - 1) : At(candles, j).low # price

CandleWithHigh(candles, price) ==
    CHOOSE i \in 0..(Len(candles) - 1) :
        /\ At(candles, i).high = price
        /\ \A j \in 0..(i - 1) : At(candles, j).high # price

\* The mean volume of candles from..to (inclusive) of the series.
MeanVolume(candles, from, to) ==
    Frac(SumVolume(SubSeq(candles, from + 1, to + 1)), to - from + 1)

\* C27: for a series of 50 or more candles from which a record is created,
\* the impulse start and end timestamps are those of the candles of the stored
\* impulse low and high, and the impulse and pullback volume averages are taken
\* from the impulse-low candle to the impulse-high candle and over the candles
\* after the impulse-high candle.
C27_ImpulseFieldsMatchCandles ==
    [][ \A key \in Scanned, scan \in Scans, higherTFCandles \in HigherTFInputs :
          ( /\ AnalyzeSymbol(key[1], key[2], scan, higherTFCandles)
            /\ last'.existing = None
            /\ last'.ret # None )
          => LET setup   == last'.ret
                 candles == scan.candles
                 lowAt   == CandleWithLow(candles, setup.impulseLow)
                 highAt  == CandleWithHigh(candles, setup.impulseHigh)
             IN  /\ setup.impulseStartTime = At(candles, lowAt).timestamp
                 /\ setup.impulseEndTime = At(candles, highAt).timestamp
                 /\ setup.impulseAvgVolume = MeanVolume(candles, lowAt, highAt)
                 /\ setup.pullbackAvgVolume =
                        MeanVolume(candles, highAt + 1, Len(candles) - 1) ]_vars

-----------------------------------------------------------------------------
(* Properties of the indicator library *)

\* The position, in the series, of the first candle among its last `lookback`
\* candles that has the lowest low / the highest high of those candles.
LowestPos(candles, lookback) ==
    LET from == Len(candles) - lookback
    IN  CHOOSE i \in from..(Len(candles) - 1) :
            /\ \A j \in from..(Len(candles) - 1) : At(candles, i).low <= At(candles, j).low
            /\ \A j \in from..(i - 1) : At(candles, j).low # At(candles, i).low

HighestPos(candles, lookback) ==
    LET from == Len(candles) - lookback
    IN  CHOOSE i \in from..(Len(candles) - 1) :
            /\ \A j \in from..(Len(candles) - 1) : At(candles, i).high >= At(candles, j).high
            /\ \A j \in from..(i - 1) : At(candles, j).high # At(candles, i).high

\* C23: with at least `lookback` candles, a lowest low before the highest high
\* of the last `lookback` candles and (high - low) / low * 100 at or above the
\* threshold give an up move whose startIndex and endIndex are the positions
\* of the two extrema in the supplied series; a highest high before the lowest
\* low and (high - low) / high * 100 at or above the threshold give a down
\* move; fewer candles than the lookback, or both extrema on one candle, give
\* null.
C23_ImpulseMatchesExtrema ==
    last.op = "detectImpulseMove" =>
        IF Len(last.candles) < last.lookbackPeriod THEN last.ret = None
        ELSE LET lowPos  == LowestPos(last.candles, last.lookbackPeriod)
                 highPos == HighestPos(last.candles, last.lookbackPeriod)
                 low     == At(last.candles, lowPos).low
                 high    == At(last.candles, highPos).high
             IN  /\ (lowPos < highPos /\ (high - low) * 100 >= last.minPercentMove * low)
                       => /\ last.ret # None
                          /\ last.ret.direction = "up"
                          /\ last.ret.startIndex = lowPos
                          /\ last.ret.endIndex = highPos
                 /\ (highPos < lowPos /\ (high - low) * 100 >= last.minPercentMove * high)
                       => /\ last.ret # None
                          /\ last.ret.direction = "down"
                          /\ last.ret.startIndex = highPos
                          /\ last.ret.endIndex = lowPos
                 /\ lowPos = highPos => last.ret = None


NonDecreasing(candles) ==
    \A i \in 1..(Len(candles) - 1) : candles[i].close <= candles[i + 1].close

StrictlyFalling(candles) ==
    \A i \in 1..(Len(candles) - 1) : candles[i].close > candles[i + 1].close

\* C24: calculateRSI with period p on n candles returns no sample when
\* n < p + 1 and n - p samples otherwise, sample i (from 0) carrying the
\* timestamp of candle p + i; every sample is 100 when the closes never fall
\* and 0 when they fall at every candle.
C24_RsiSamples ==
    last.op = "calculateRSI" =>
        LET n == Len(last.candles)
            p == last.period
        IN  IF n < p + 1 THEN last.ret = <<>>
            ELSE /\ Len(last.ret) = n - p
                 /\ \A i \in 0..(n - p - 1) :
                       At(last.ret, i).timestamp = At(last.candles, p + i).timestamp
                 /\ NonDecreasing(last.candles)
                       => \A i \in 0..(n - p - 1) : At(last.ret, i).value = Frac(100, 1)
                 /\ StrictlyFalling(last.candles)
                       => \A i \in 0..(n - p - 1) : At(last.ret, i).value = Frac(0, 1)

\* Period 14 on exactly 15 falling candles: one sample, of value 0, with the
\* timestamp of the last candle.
C24_Witness ==
    /\ last.op = "calculateRSI"
    /\ last.period = 14
    /\ Len(last.candles) = 15
    /\ StrictlyFalling(last.candles)
    /\ last.ret = <<[value |-> Frac(0, 1), timestamp |-> At(last.candles, 14).timestamp]>>

-----------------------------------------------------------------------------
(* Liveness of the RateLimiter *)

\* C26: every request that was submitted and is waiting, in the queue or in
\* its delay, is eventually dispatched, provided every dispatched task
\* eventually settles.
C26_EveryRequestDispatched ==
    \A t \in Tasks : (t \in Waiting) ~> (t \in Dispatched)

\* A request waits in the queue while fewer than maxConcurrent tasks are
\* counted as running: a completion has released the head of the queue, which
\* is in its delay, and the request behind it is still queued.
C26_Witness ==
    /\ Len(queue) >= 1
    /\ running < MaxConcurrent
    /\ \E t \in Tasks : pc[t] = "sleeping"

-----------------------------------------------------------------------------
(* Properties of batchGetKlines *)

\* The positions of the symbols argument, and those whose getKlines call
\* settled in one of the given ways.
Positions == 1..Len(symbols)

SettledAs(kinds) == {t \in Positions : settled[t] # None /\ settled[t].kind \in kinds}

\* C21: whichever symbols fail, batchGetKlines returns once every symbol has
\* settled, and the mapping it returns holds exactly the symbols whose fetch
\* succeeded, each with the candles of its own response, and none of the
\* symbols that failed.
C21_ResultsAreTheSucceeded ==
    /\ (batchPc # "idle" /\ SettledAs({"klines", "invalid", "exhausted"}) = Positions)
          => batchPc = "returned"
    /\ batchPc = "returned" =>
          /\ DOMAIN resultsMap = {symbols[t] : t \in SettledAs({"klines"})}
          /\ \A t \in SettledAs({"klines"}) :
                resultsMap[symbols[t]] = toCandles(settled[t].body.rows)
          /\ \A t \in Positions \ SettledAs({"klines"}) :
                symbols[t] \notin DOMAIN resultsMap

\* Of three symbols the first exhausted its retries and the other two were
\* answered their klines: the mapping holds the last two, each with its own.
C21_Witness ==
    /\ batchPc = "returned"
    /\ symbols = <<"BTC", "ETH", "SOL">>
    /\ settled[1].kind = "exhausted"
    /\ settled[2].kind = "klines"
    /\ settled[3].kind = "klines"
    /\ DOMAIN resultsMap = {"ETH", "SOL"}
    /\ Len(resultsMap["ETH"]) = 2
    /\ resultsMap["ETH"][2].close = 21
    /\ Len(resultsMap["SOL"]) = 3
    /\ resultsMap["SOL"][3].close = 31

\* onProgress was called once per symbol, with the running count.
ProgressOncePerSymbol ==
    /\ completed = Len(symbols)
    /\ progress = [i \in Positions |-> <<i, Len(symbols)>>]

\* Every symbol has settled in one of the given ways; a symbol that exhausted
\* its retries made DefaultRetries failed attempts.
AllSettledAs(kinds) ==
    /\ SettledAs(kinds) = Positions
    /\ \A t \in SettledAs({"exhausted"}) : tries[t] = DefaultRetries

\* C22 as stated: a batch that was started eventually returns, and it returns
\* only when every symbol has succeeded or exhausted its retries, onProgress
\* having been called once per symbol.
C22_Original ==
    /\ [](batchPc = "returned" =>
             (AllSettledAs({"klines", "exhausted"}) /\ ProgressOncePerSymbol))
    /\ (batchPc = "pending") ~> (batchPc = "returned")

\* C22 amended: ... only when every symbol has succeeded, exhausted its
\* retries, or failed on a response that is not an array of klines ...
C22_BatchCompletes ==
    /\ [](batchPc = "returned" =>
             (AllSettledAs({"klines", "exhausted", "invalid"}) /\ ProgressOncePerSymbol))
    /\ (batchPc = "pending") ~> (batchPc = "returned")

\* A batch of more symbols than the cap has returned: one symbol succeeded on
\* its third attempt and every other symbol exhausted its retries.
C22_Witness ==
    /\ batchPc = "returned"
    /\ Len(symbols) > MaxConcurrent
    /\ settled[1].kind = "klines"
    /\ tries[1] = 2
    /\ \A t \in Positions \ {1} : settled[t].kind = "exhausted"
    /\ Len(progress) = Len(symbols)

=============================================================================
